---- MODULE Spec2Model ----
(***************************************************************************)
(* A model of the hivemind website backend: src/app.py (routes, session    *)
(* gate, login/logout) over src/database.py (collections, file store,      *)
(* credential hasher).                                                     *)
(*                                                                         *)
(* Text (URLs, file names, emails, passwords) is a sequence of             *)
(* one-character strings, so that the code's character-level tests and     *)
(* conversions are computed.  Fixed message texts and dict keys are TLA+   *)
(* strings.  Python's None is NoneText where a text may stand and None     *)
(* where a dict or an upload object may stand.                             *)
(***************************************************************************)
EXTENDS Integers, Sequences, FiniteSets, Bags, TLC

\* ------------------------------------------------------------------ bounds

\* Documents in each of the projects, gallery and blogs collections.
MaxItems == 1
\* Documents in the members collection.
MaxMembers == 2
\* Documents in the users collection, the one present at start-up included.
MaxUsers == 3
\* Documents inserted where all four content collections are written.
MaxContentDocs == 2
\* create_member requests that may be suspended at an await at the same time.
MaxInflight == 2
\* The last value of the clock.
MaxTime == 1

\* ------------------------------------------------------------ text helpers

\* None in the place of a dict or an object
None == [none |-> TRUE]
\* None in the place of a text: no text is this sequence, whose one element
\* is not a character
NoneText == <<"None">>

\* s.startswith(p)
StartsWith(s, p) ==
    /\ Len(s) >= Len(p)
    /\ SubSeq(s, 1, Len(p)) = p

\* s.endswith(p)
EndsWith(s, p) ==
    /\ Len(s) >= Len(p)
    /\ SubSeq(s, Len(s) - Len(p) + 1, Len(s)) = p

\* s.find(c) + 1: the first position of character c in s, 0 when absent
Find(s, c) ==
    IF \E i \in 1..Len(s) : s[i] = c
    THEN CHOOSE i \in 1..Len(s) : s[i] = c /\ \A j \in 1..(i - 1) : s[j] # c
    ELSE 0

\* s.rfind(c) + 1: the last position of character c in s, 0 when absent
RFind(s, c) ==
    IF \E i \in 1..Len(s) : s[i] = c
    THEN CHOOSE i \in 1..Len(s) : s[i] = c /\ \A j \in (i + 1)..Len(s) : s[j] # c
    ELSE 0

\* s[i:] with a 1-based i
From(s, i) == SubSeq(s, i, Len(s))

HexDigits == <<"0", "1", "2", "3", "4", "5", "6", "7", "8", "9",
               "a", "b", "c", "d", "e", "f">>

\* The hexadecimal text of a natural number (str(ObjectId), uuid4().hex).
RECURSIVE Hex(_)
Hex(n) ==
    IF n < 16 THEN <<HexDigits[n + 1]>>
    ELSE Hex(n \div 16) \o <<HexDigits[(n % 16) + 1]>>

\* The characters urllib.parse.quote always leaves alone are letters,
\* digits and "_.-~"; of the characters used here these are the others,
\* with the two hex digits of their percent escape.
PctCode ==
    [c \in {":", "/", "?", "=", "%", "&", " "} |->
        CASE c = ":" -> <<"3", "A">>
          [] c = "/" -> <<"2", "F">>
          [] c = "?" -> <<"3", "F">>
          [] c = "=" -> <<"3", "D">>
          [] c = "%" -> <<"2", "5">>
          [] c = "&" -> <<"2", "6">>
          [] c = " " -> <<"2", "0">>]

\* urllib.parse.quote(s, safe=safe)
RECURSIVE quote(_, _)
quote(s, safe) ==
    IF s = <<>> THEN <<>>
    ELSE (IF s[1] \in DOMAIN PctCode /\ s[1] \notin safe
          THEN <<"%">> \o PctCode[s[1]]
          ELSE <<s[1]>>) \o quote(Tail(s), safe)

\* urllib.parse.unquote(s): a "%" followed by two hex digits is the
\* character they encode; anything else is kept as it is.
RECURSIVE unquote(_)
unquote(s) ==
    IF s = <<>> THEN <<>>
    ELSE IF /\ s[1] = "%"
            /\ Len(s) >= 3
            /\ \E c \in DOMAIN PctCode : PctCode[c] = <<s[2], s[3]>>
         THEN <<CHOOSE c \in DOMAIN PctCode : PctCode[c] = <<s[2], s[3]>>>>
              \o unquote(From(s, 4))
         ELSE <<s[1]>> \o unquote(Tail(s))

\* s.split(c)
RECURSIVE Split(_, _)
Split(s, c) ==
    IF Find(s, c) = 0 THEN <<s>>
    ELSE <<SubSeq(s, 1, Find(s, c) - 1)>> \o Split(From(s, Find(s, c) + 1), c)

\* s.strip()
RECURSIVE Strip(_)
Strip(s) ==
    IF s = <<>> THEN s
    ELSE IF s[1] = " " THEN Strip(Tail(s))
    ELSE IF s[Len(s)] = " " THEN Strip(SubSeq(s, 1, Len(s) - 1))
    ELSE s

\* [x.strip() for x in s.split(",")]
StripSplit(s) == [i \in 1..Len(Split(s, ",")) |-> Strip(Split(s, ",")[i])]

\* os.path.splitext(p)[1]: the text from the last dot on, when that dot comes
\* after the last separator and after a character of the name that is not a
\* dot.
splitext(p) ==
    LET sepIndex == RFind(p, "/")
        dotIndex == RFind(p, ".")
    IN  IF /\ dotIndex > sepIndex
           /\ \E k \in (sepIndex + 1)..(dotIndex - 1) : p[k] # "."
        THEN From(p, dotIndex)
        ELSE <<>>

\* The value of query parameter `key` in a URL, as Query(None) hands it to a
\* handler: the query string is cut at "&", each piece at its first "=", and
\* the value is percent-decoded; None when the parameter is absent.
QueryParam(url, key) ==
    LET q     == IF Find(url, "?") = 0 THEN <<>> ELSE From(url, Find(url, "?") + 1)
        parts == Split(q, "&")
        IsKey(p) == Find(p, "=") > 0 /\ unquote(SubSeq(p, 1, Find(p, "=") - 1)) = key
    IN  IF \E i \in 1..Len(parts) : IsKey(parts[i])
        THEN LET i == CHOOSE i \in 1..Len(parts) :
                         IsKey(parts[i]) /\ \A j \in 1..(i - 1) : ~IsKey(parts[j])
             IN  unquote(From(parts[i], Find(parts[i], "=") + 1))
        ELSE NoneText

\* ------------------------------------------------------ dicts and documents

\* d[k] = v on a dict
Put(d, k, v) == [f \in DOMAIN d \cup {k} |-> IF f = k THEN v ELSE d[f]]

\* del d[k]
Del(d, k) == [f \in DOMAIN d \ {k} |-> d[f]]

\* d.get(k) for a text-valued key
Get(d, k) == IF k \in DOMAIN d THEN d[k] ELSE NoneText

\* Python truth of a text or None: neither None nor empty
Truthy(v) == v # NoneText /\ v # <<>>

\* Python truth of a dict, an object or None.  A dict here is never empty,
\* and an UploadFile defines neither __bool__ nor __len__, so every upload
\* object is true, whatever its file name.
IsObject(v) == v # None

\* ---------------------------------------------------------- program constants

\* database.py: UPLOAD_DIR = "uploads"
UPLOAD_DIR == <<"u", "p", "l", "o", "a", "d", "s">>

\* app.py: the default landing page of a successful login
AddProjectPath == <<"/", "a", "d", "d", "-", "p", "r", "o", "j", "e", "c", "t">>
AddMemberPath == <<"/", "a", "d", "d", "-", "m", "e", "m", "b", "e", "r">>
LoginPath == <<"/", "l", "o", "g", "i", "n">>
LoginError == LoginPath \o <<"?", "e", "r", "r", "o", "r", "=", "1">>
NextKey == <<"n", "e", "x", "t">>
ApiPath(name) == <<"/", "a", "p", "i", "/">> \o name

\* The scheme and host the site is served from: str(request.url) starts
\* with it.
Origin == <<"h", "t", "t", "p", ":", "/", "/", "s">>

\* The protected pages and the templates they render.
ProtectedPages ==
    [p \in {AddProjectPath, AddMemberPath} |->
        IF p = AddProjectPath THEN "addproject.html" ELSE "addmember.html"]

\* ------------------------------------------------------------------ inputs

Emails == {<<"a", "@", "x">>, <<"b", "@", "x">>}
Names == {<<"B", "o", "b">>}
LoginPasswords == {<<"p">>, <<"q">>}
MemberPasswords == {<<"p">>, <<>>}
Salts == {1, 2}

\* An upload: no upload object, an upload object with an empty file name
\* (a form submitted with the file input left empty), or a named file.
Upload(filename) == [filename |-> filename]
FileNames == {<<"a", ".", "p", "n", "g">>, <<".", "e", "n", "v">>}
Uploads == {None, Upload(<<>>)} \cup {Upload(f) : f \in FileNames}

\* Return-to values a login form may submit: empty, relative paths, a
\* protocol-relative URL and an absolute URL.
NextUrls ==
    { <<>>, <<"/">>, AddMemberPath,
      <<"/", "/", "e", "v", "i", "l">>,
      <<"h", "t", "t", "p", ":", "/", "/", "e", "v", "i", "l">> }

\* Form texts that the handlers store without looking into them.
SomeText == <<"t">>
\* A techStack or tags field: a comma separated list
SomeList == <<"a", ",", " ", "b">>

\* ------------------------------------------------------------ database.py

\* The store and the upload directory as one value, db: the five
\* collections (each a sequence of documents in insertion order), the files
\* written, and the next ObjectId and uuid4 the process will draw.

\* pwd_context.hash: a salted one-way digest of the password
get_password_hash(password, salt) ==
    [scheme |-> "bcrypt", salt |-> salt, of |-> password]

\* pwd_context.verify
verify_password(plain_password, hashed_password) ==
    hashed_password.of = plain_password

save_upload_file(upload_file, db) ==
    IF ~IsObject(upload_file) \/ ~Truthy(upload_file.filename)
    THEN [url |-> NoneText, db |-> db]
    ELSE LET file_extension == splitext(upload_file.filename)
             unique_filename == Hex(db.nextUuid) \o file_extension
             file_path == UPLOAD_DIR \o <<"/">> \o unique_filename
         IN  [url |-> <<"/">> \o UPLOAD_DIR \o <<"/">> \o unique_filename,
              db  |-> [db EXCEPT !.files = @ \cup {file_path},
                                 !.nextUuid = @ + 1]]

\* A serializer that adds the id and forgets to drop _id
mongo_id_serializer_keeping(doc) ==
    IF "_id" \in DOMAIN doc THEN Put(doc, "id", Hex(doc["_id"])) ELSE doc

mongo_id_serializer(doc) ==
    IF "_id" \in DOMAIN doc
    THEN Del(Put(doc, "id", Hex(doc["_id"])), "_id")
    ELSE doc

\* collection.insert_one(doc): the driver gives the document a fresh _id
insert_one(db, coll, doc) ==
    [db EXCEPT ![coll] = Append(@, Put(doc, "_id", db.nextOid)),
               !.nextOid = @ + 1]

\* users_collection.find_one({"email": email}), serialized: the first match
\* in the collection's order
get_user_by_email(users_collection, email) ==
    LET hits == {i \in 1..Len(users_collection) : users_collection[i].email = email}
    IN  IF hits # {}
        THEN mongo_id_serializer(
                 users_collection[CHOOSE i \in hits : \A j \in hits : i <= j])
        ELSE None

\* get_all_projects, get_all_members, get_all_gallery_items, get_all_blogs
get_all(collection) ==
    [i \in 1..Len(collection) |-> mongo_id_serializer(collection[i])]

\* add_project, add_gallery_item and add_blog are the same code over
\* different collections.
add_item(coll, item_data, image_file, db, utcnow, message) ==
    LET saved == save_upload_file(image_file, db)
        image_url == saved.url
        d1 == IF Truthy(image_url) THEN Put(item_data, "imageUrl", image_url)
              ELSE item_data
        d2 == Put(d1, "createdAt", utcnow)
    IN  [db |-> insert_one(saved.db, coll, d2),
         result |-> [status |-> "success", message |-> message]]

add_project(project_data, image_file, db, utcnow) ==
    add_item("projects", project_data, image_file, db, utcnow,
             "Project added successfully")

add_gallery_item(gallery_data, image_file, db, utcnow) ==
    add_item("gallery", gallery_data, image_file, db, utcnow,
             "Gallery item added successfully")

add_blog(blog_data, image_file, db, utcnow) ==
    add_item("blogs", blog_data, image_file, db, utcnow,
             "Blog post added successfully")

\* add_member up to its first database read: the member document is built
\* and inserted, and an admin request with a field missing ends here.  The
\* call that goes on is a record of its local variables and its position.
add_member_insert_member(member_data, photo_file, resume_file, db, utcnow) ==
    LET is_admin == member_data.isAdmin
        name == member_data.name
        email == member_data.email
        password == member_data.password
        member_doc == [name |-> name, role |-> member_data.role,
                       linkedin |-> member_data.linkedin,
                       github |-> member_data.github,
                       email |-> email, createdAt |-> utcnow]
        photo == save_upload_file(photo_file, db)
        d1 == IF IsObject(photo_file) THEN Put(member_doc, "photoUrl", photo.url)
              ELSE member_doc
        db1 == IF IsObject(photo_file) THEN photo.db ELSE db
        resume == save_upload_file(resume_file, db1)
        d2 == IF IsObject(resume_file) THEN Put(d1, "resumeUrl", resume.url)
              ELSE d1
        db2 == IF IsObject(resume_file) THEN resume.db ELSE db1
        db3 == insert_one(db2, "members", d2)
    IN  IF is_admin
        THEN IF ~(Truthy(name) /\ Truthy(email) /\ Truthy(password))
             THEN [db |-> db3, pc |-> "done",
                   result |-> [status |-> "error",
                               message |-> "Admin user requires a name, email, and password."]]
             ELSE [db |-> db3, pc |-> "lookup",
                   call |-> [pc |-> "lookup", name |-> name, email |-> email,
                             password |-> password]]
        ELSE [db |-> db3, pc |-> "done",
              result |-> [status |-> "success",
                          message |-> "Member added successfully"]]

\* A lookup that never finds the user
add_member_lookup_blind(call, db) ==
    [pc |-> "hash", call |-> [call EXCEPT !.pc = "hash"]]

\* existing_user = await get_user_by_email(email), and the test of it
add_member_lookup(call, db) ==
    LET existing_user == get_user_by_email(db.users, call.email)
    IN  IF IsObject(existing_user)
        THEN [pc |-> "done",
              result |-> [status |-> "error",
                          message |-> "A user with this email already exists."]]
        ELSE [pc |-> "hash", call |-> [call EXCEPT !.pc = "hash"]]

\* hashed_password = await get_password_hash(password)
add_member_hash(call, salt) ==
    [pc |-> "insert", name |-> call.name, email |-> call.email,
     password |-> call.password,
     hashed_password |-> get_password_hash(call.password, salt)]

\* await users_collection.insert_one(user_doc), and the return
add_member_insert_user(call, db, utcnow) ==
    LET user_doc == [name |-> call.name, email |-> call.email,
                     password |-> call.hashed_password, createdAt |-> utcnow]
    IN  [db |-> insert_one(db, "users", user_doc),
         result |-> [status |-> "success",
                     message |-> "Admin member and user created successfully"]]

\* add_member run from its first line to its return with no other request
\* in between
add_member(member_data, photo_file, resume_file, db, utcnow, salt) ==
    LET begun == add_member_insert_member(member_data, photo_file, resume_file,
                                          db, utcnow)
    IN  IF begun.pc = "done" THEN [db |-> begun.db, result |-> begun.result]
        ELSE LET looked == add_member_lookup(begun.call, begun.db)
             IN  IF looked.pc = "done"
                 THEN [db |-> begun.db, result |-> looked.result]
                 ELSE add_member_insert_user(add_member_hash(looked.call, salt),
                                             begun.db, utcnow)

\* ------------------------------------------------------------------ app.py

get_current_user(session_, users_collection) ==
    LET user_email == Get(session_, "user_email")
    IN  IF Truthy(user_email)
        THEN get_user_by_email(users_collection, user_email)
        ELSE None

\* A gate that lets every request through
require_login_open(session_, users_collection, url) ==
    [raised |-> FALSE, user |-> get_current_user(session_, users_collection)]

\* require_login for a request of `url`: the user, or the HTTPException
\* raised, which the framework answers the request with.
require_login(session_, users_collection, url) ==
    LET user == get_current_user(session_, users_collection)
    IN  IF ~IsObject(user)
        THEN [raised |-> TRUE, status_code |-> 307,
              location |-> LoginPath \o <<"?">> \o NextKey \o <<"=">>
                           \o quote(url, {})]
        ELSE [raised |-> FALSE, user |-> user]

RedirectResponse(url, status_code) ==
    [status |-> status_code, location |-> url]

\* A login that stores the email in the session and forgets the name
handle_login_nameless(session_, users_collection, email, password, next_url) ==
    LET user == get_user_by_email(users_collection, email)
    IN  IF IsObject(user) /\ verify_password(password, user.password)
        THEN [session |-> Put(session_, "user_email", user.email),
              response |-> RedirectResponse(AddProjectPath, 303)]
        ELSE [session |-> session_, response |-> RedirectResponse(LoginError, 303)]

\* handle_login: the session it leaves and the response it returns
handle_login(session_, users_collection, email, password, next_url) ==
    LET user == get_user_by_email(users_collection, email)
    IN  IF ~IsObject(user)
        THEN [session |-> session_, response |-> RedirectResponse(LoginError, 303)]
        ELSE IF verify_password(password, user.password)
        THEN [session |-> Put(Put(session_, "user_email", user.email),
                              "user_name", user.name),
              response |->
                  IF Truthy(next_url) /\ StartsWith(next_url, <<"/">>)
                  THEN RedirectResponse(next_url, 303)
                  ELSE RedirectResponse(AddProjectPath, 303)]
        ELSE [session |-> session_,
              response |->
                  RedirectResponse(
                      LoginError \o
                      (IF Truthy(next_url) /\ StartsWith(next_url, <<"/">>)
                       THEN <<"&">> \o NextKey \o <<"=">> \o quote(next_url, {"/"})
                       ELSE <<>>),
                      303)]

\* A logout that removes the email from the session and leaves the rest
handle_logout_partial(session_) ==
    [session |-> Del(session_, "user_email"),
     response |-> RedirectResponse(<<"/">>, 303)]

\* handle_logout: request.session.clear() and the redirect home
handle_logout(session_) ==
    [session |-> <<>>, response |-> RedirectResponse(<<"/">>, 303)]

\* serve_login for a GET of `url`
serve_login(session_, users_collection, url) ==
    LET user == get_current_user(session_, users_collection)
    IN  IF IsObject(user)
        THEN RedirectResponse(AddProjectPath, 303)
        ELSE [status |-> 200, template |-> "login.html",
              next_url |-> QueryParam(url, NextKey)]

\* ------------------------------------------------------------------- state

VARIABLES
    projects, members, gallery, blogs, users,  \* the collections
    files,       \* the paths written under UPLOAD_DIR
    nextOid,     \* the next ObjectId the driver draws
    nextUuid,    \* the next uuid4 drawn
    session,     \* the browser's session, as its cookie carries it
    response,    \* the last response sent, tagged with the route that sent it
    inflight     \* the add_member calls suspended at an await (a set of calls
                 \* with the number of copies of each)

data == <<projects, members, gallery, blogs, users, files, nextOid, nextUuid>>
vars == <<projects, members, gallery, blogs, users, files, nextOid, nextUuid,
          session, response, inflight>>

db_ ==
    [projects |-> projects, members |-> members, gallery |-> gallery,
     blogs |-> blogs, users |-> users, files |-> files,
     nextOid |-> nextOid, nextUuid |-> nextUuid]

Commit(db) ==
    /\ projects' = db.projects
    /\ members' = db.members
    /\ gallery' = db.gallery
    /\ blogs' = db.blogs
    /\ users' = db.users
    /\ files' = db.files
    /\ nextOid' = db.nextOid
    /\ nextUuid' = db.nextUuid

\* The store holds one admin user at start-up: with none, nobody could ever
\* log in.
SeedUser ==
    [_id |-> 0, name |-> <<"A", "n", "n">>, email |-> <<"a", "@", "x">>,
     password |-> get_password_hash(<<"p">>, 1), createdAt |-> 0]

\* A session cookie issued for an email the store has no user for (the
\* store is MongoDB, which outlives and is administered apart from the site)
StaleSession ==
    [user_email |-> <<"b", "@", "x">>, user_name |-> <<"B", "o", "b">>]

\* The state at start-up with the browser's session one of `sessions`
Start(sessions) ==
    /\ projects = <<>>
    /\ members = <<>>
    /\ gallery = <<>>
    /\ blogs = <<>>
    /\ users = <<SeedUser>>
    /\ files = {}
    /\ nextOid = 1
    /\ nextUuid = 0
    /\ session \in sessions
    /\ response = [op |-> "none"]
    /\ inflight = EmptyBag

Init == Start({<<>>})

\* ----------------------------------------------------------------- actions

\* The response of route `op`
Respond(op, r) == response' = Put(r, "op", op)

JSONResponse(op, body) == response' = [op |-> op, status |-> 200, body |-> body]

\* The framework's answer when require_login raises
Refused(op, exc) ==
    /\ response' = [op |-> op, status |-> exc.status_code,
                    location |-> exc.location]
    /\ UNCHANGED <<data, session, inflight>>

\* POST /login
HandleLogin(email, password, next_url) ==
    LET done == handle_login(session, users, email, password, next_url)
    IN  /\ session' = done.session
        /\ Respond("handle_login", done.response)
        /\ UNCHANGED <<data, inflight>>

\* GET /logout
HandleLogout ==
    LET done == handle_logout(session)
    IN  /\ session' = done.session
        /\ Respond("handle_logout", done.response)
        /\ UNCHANGED <<data, inflight>>

\* GET /api/projects, /api/members, /api/gallery, /api/blogs
GetProjects ==
    /\ JSONResponse("get_projects", get_all(projects))
    /\ UNCHANGED <<data, session, inflight>>

GetMembers ==
    /\ JSONResponse("get_members", get_all(members))
    /\ UNCHANGED <<data, session, inflight>>

GetGallery ==
    /\ JSONResponse("get_gallery", get_all(gallery))
    /\ UNCHANGED <<data, session, inflight>>

GetBlogs ==
    /\ JSONResponse("get_blogs", get_all(blogs))
    /\ UNCHANGED <<data, session, inflight>>

ProjectsUrl == Origin \o ApiPath(<<"p", "r", "o", "j", "e", "c", "t", "s">>)
MembersUrl == Origin \o ApiPath(<<"m", "e", "m", "b", "e", "r", "s">>)
GalleryUrl == Origin \o ApiPath(<<"g", "a", "l", "l", "e", "r", "y">>)
BlogsUrl == Origin \o ApiPath(<<"b", "l", "o", "g", "s">>)

\* POST /api/projects
CreateProject(projectImage, utcnow) ==
    LET auth == require_login(session, users, ProjectsUrl)
        project_data == [title |-> SomeText, description |-> SomeText,
                         techStack |-> StripSplit(SomeList),
                         github |-> SomeText, linkedin |-> SomeText]
    IN  IF auth.raised THEN Refused("create_project", auth)
        ELSE /\ Len(projects) < MaxItems
             /\ LET done == add_project(project_data, projectImage, db_, utcnow)
                IN  Commit(done.db) /\ JSONResponse("create_project", done.result)
             /\ UNCHANGED <<session, inflight>>

\* POST /api/gallery
CreateGalleryItem(image, utcnow) ==
    LET auth == require_login(session, users, GalleryUrl)
        gallery_data == [caption |-> SomeText, category |-> SomeText,
                         description |-> SomeText]
    IN  IF auth.raised THEN Refused("create_gallery_item", auth)
        ELSE /\ Len(gallery) < MaxItems
             /\ LET done == add_gallery_item(gallery_data, image, db_, utcnow)
                IN  Commit(done.db) /\ JSONResponse("create_gallery_item", done.result)
             /\ UNCHANGED <<session, inflight>>

\* POST /api/blogs
CreateBlog(image, utcnow) ==
    LET auth == require_login(session, users, BlogsUrl)
        readTime == <<"5">>
        blog_data == [title |-> SomeText, content |-> SomeText, date |-> SomeText,
                      category |-> SomeText, author |-> SomeText,
                      readTime |-> readTime \o <<" ", "m", "i", "n", " ", "r", "e", "a", "d">>,
                      tags |-> StripSplit(SomeList)]
    IN  IF auth.raised THEN Refused("create_blog", auth)
        ELSE /\ Len(blogs) < MaxItems
             /\ LET done == add_blog(blog_data, image, db_, utcnow)
                IN  Commit(done.db) /\ JSONResponse("create_blog", done.result)
             /\ UNCHANGED <<session, inflight>>

\* The member_data dict create_member builds from its form
MemberData(fullName, email, password, adminPrivileges) ==
    [name |-> fullName, role |-> SomeText, linkedin |-> <<>>, github |-> <<>>,
     email |-> email, password |-> password, isAdmin |-> adminPrivileges]

\* POST /api/members, up to add_member's first database read
CreateMember(fullName, email, password, profileImage, resume, adminPrivileges, utcnow) ==
    LET auth == require_login(session, users, MembersUrl)
        member_data == MemberData(fullName, email, password, adminPrivileges)
    IN  IF auth.raised THEN Refused("create_member", auth)
        ELSE /\ Len(members) < MaxMembers
             /\ BagCardinality(inflight) < MaxInflight
             /\ LET begun == add_member_insert_member(member_data, profileImage,
                                                      resume, db_, utcnow)
                IN  /\ Commit(begun.db)
                    /\ IF begun.pc = "done"
                       THEN /\ JSONResponse("create_member", begun.result)
                            /\ UNCHANGED inflight
                       ELSE /\ inflight' = inflight (+) SetToBag({begun.call})
                            /\ UNCHANGED response
             /\ UNCHANGED session

\* A suspended add_member call resumes at its lookup of the email
MemberLookup(call) ==
    /\ BagIn(call, inflight)
    /\ call.pc = "lookup"
    /\ LET looked == add_member_lookup(call, db_)
           rest == inflight (-) SetToBag({call})
       IN  IF looked.pc = "done"
           THEN /\ inflight' = rest
                /\ JSONResponse("create_member", looked.result)
           ELSE /\ inflight' = rest (+) SetToBag({looked.call})
                /\ UNCHANGED response
    /\ UNCHANGED <<data, session>>

\* ... at the hashing of its password
MemberHash(call, salt) ==
    /\ BagIn(call, inflight)
    /\ call.pc = "hash"
    /\ inflight' = (inflight (-) SetToBag({call}))
                   (+) SetToBag({add_member_hash(call, salt)})
    /\ UNCHANGED <<data, session, response>>

\* ... at the insert of its user
MemberInsertUser(call, utcnow) ==
    /\ BagIn(call, inflight)
    /\ call.pc = "insert"
    /\ Len(users) < MaxUsers
    /\ LET done == add_member_insert_user(call, db_, utcnow)
       IN  Commit(done.db) /\ JSONResponse("create_member", done.result)
    /\ inflight' = inflight (-) SetToBag({call})
    /\ UNCHANGED session

\* POST /api/members with no other request running before it returns
CreateMemberAlone(fullName, email, password, profileImage, resume, adminPrivileges, utcnow, salt) ==
    LET auth == require_login(session, users, MembersUrl)
        member_data == MemberData(fullName, email, password, adminPrivileges)
    IN  IF auth.raised THEN Refused("create_member", auth)
        ELSE LET done == add_member(member_data, profileImage, resume, db_,
                                    utcnow, salt)
             IN  /\ Len(members) < MaxMembers
                 /\ Len(done.db.users) <= MaxUsers
                 /\ Commit(done.db)
                 /\ JSONResponse("create_member", done.result)
                 /\ UNCHANGED <<session, inflight>>

\* GET /add-project, /add-member (/add-image and /add-blog are the same code)
ServeAddPage(page) ==
    LET auth == require_login(session, users, Origin \o page)
    IN  IF auth.raised THEN Refused("serve_add_page", auth)
        ELSE /\ response' = [op |-> "serve_add_page", status |-> 200,
                             template |-> ProtectedPages[page],
                             user |-> auth.user]
             /\ UNCHANGED <<data, session, inflight>>

\* The login URLs a browser asks for: the bare page, or the Location of the
\* redirect it has just been answered with.
LoginUrls ==
    {LoginPath} \cup
    (IF "location" \in DOMAIN response /\ StartsWith(response.location, LoginPath)
     THEN {response.location} ELSE {})

\* GET /login
ServeLogin(url) ==
    /\ Respond("serve_login", serve_login(session, users, url))
    /\ UNCHANGED <<data, session, inflight>>

\* The return-to values a login form submits: any text, or the next_url
\* the login page was rendered with.
SubmittedNextUrls ==
    NextUrls \cup
    (IF "next_url" \in DOMAIN response /\ response.next_url # NoneText
     THEN {response.next_url} ELSE {})

\* The values utcnow() may return
Times == 0..MaxTime

\* ---------------------------------------------------------- specifications

\* A login from the form of the home page's link
LoginHome ==
    \E e \in Emails, p \in LoginPasswords : HandleLogin(e, p, <<"/">>)

\* The steps of the add_member calls in flight
MemberSteps(salts, times) ==
    \/ \E call \in BagToSet(inflight) : MemberLookup(call)
    \/ \E call \in BagToSet(inflight), salt \in salts : MemberHash(call, salt)
    \/ \E call \in BagToSet(inflight), t \in times : MemberInsertUser(call, t)

\* Member creation by requests that run concurrently
Next ==
    \/ LoginHome
    \/ HandleLogout
    \/ \E n \in Names, e \in Emails, p \in MemberPasswords, a \in BOOLEAN,
          t \in Times :
           CreateMember(n, e, p, None, None, a, t)
    \/ MemberSteps(Salts, Times)
    \/ GetMembers

Spec == Init /\ [][Next]_vars

\* Member creation by requests that run one after another
AlonePhotos == {None, Upload(<<"a", ".", "p", "n", "g">>)}

NextAlone ==
    \/ LoginHome
    \/ HandleLogout
    \/ \E n \in Names, e \in Emails, p \in MemberPasswords, a \in BOOLEAN,
          f \in AlonePhotos, salt \in Salts :
           CreateMemberAlone(n, e, p, f, None, a, 0, salt)
    \/ GetMembers

SpecAlone == Init /\ [][NextAlone]_vars

\* The four content collections: their POST and GET routes
NextContent ==
    \/ LoginHome
    \/ HandleLogout
    \/ \E f \in Uploads \ {None} :
           nextOid <= MaxContentDocs /\ CreateProject(f, 0)
    \/ \E f \in Uploads \ {None} :
           nextOid <= MaxContentDocs /\ CreateGalleryItem(f, 0)
    \/ \E f \in Uploads \ {None} :
           nextOid <= MaxContentDocs /\ CreateBlog(f, 0)
    \/ \E f \in Uploads, g \in Uploads :
           /\ nextOid <= MaxContentDocs
           /\ CreateMemberAlone(<<"B", "o", "b">>, <<"b", "@", "x">>, <<"p">>,
                                f, g, FALSE, 0, 1)
    \/ GetProjects
    \/ GetMembers
    \/ GetGallery
    \/ GetBlogs

\* ... with a browser that may hold a stale session cookie
InitContent == Start({<<>>, StaleSession})

SpecContent == InitContent /\ [][NextContent]_vars

\* Login, logout and the pages behind the login, while admin members are
\* being created
NextLogin ==
    \/ \E e \in Emails, p \in LoginPasswords, n \in SubmittedNextUrls :
           HandleLogin(e, p, n)
    \/ HandleLogout
    \/ \E page \in DOMAIN ProtectedPages : ServeAddPage(page)
    \/ \E url \in LoginUrls : ServeLogin(url)
    \/ \E n \in Names, e \in Emails :
           CreateMember(n, e, <<"p">>, None, None, TRUE, 0)
    \/ MemberSteps({1}, {0})

SpecLogin == Init /\ [][NextLogin]_vars

\* ------------------------------------------------------------------ claims

\* `new` is `old` with k documents appended
Appended(old, new, k) ==
    /\ Len(new) = Len(old) + k
    /\ SubSeq(new, 1, Len(old)) = old

Last(seq) == seq[Len(seq)]

HasUser(users_collection, email) ==
    \E i \in 1..Len(users_collection) : users_collection[i].email = email

LoggedIn == IsObject(get_current_user(session, users))

\* C1: in every reachable state, whatever the interleaving of the running
\* add_member requests, the users collection holds at most one User
\* document per email address.
C1_OneUserPerEmail ==
    \A i, j \in 1..Len(users) : users[i].email = users[j].email => i = j

\* C2: of add_member calls run one after another with the admin flag set and
\* a non-empty name, email and password, a call with an email that no User
\* has inserts exactly one Member and exactly one User and returns success;
\* a call with an email that a User has (every later call with that email)
\* inserts exactly one Member and no User and returns an error.
C2_SequentialAdminMember ==
    [][(response'.op = "create_member" /\ LoggedIn) =>
          \A n \in Names, e \in Emails, p \in MemberPasswords \ {<<>>},
             f \in AlonePhotos, salt \in Salts :
             CreateMemberAlone(n, e, p, f, None, TRUE, 0, salt)
             => /\ Appended(members, members', 1)
                /\ Last(members').email = e
                /\ IF HasUser(users, e)
                   THEN /\ users' = users
                        /\ response'.body.status = "error"
                   ELSE /\ Appended(users, users', 1)
                        /\ Last(users').email = e
                        /\ response'.body.status = "success"]_vars

\* Two admin members were created with one email, one after the other: the
\* first call made the user, the second was answered with an error.
C2_Witness ==
    /\ Len(members) = 2
    /\ members[1].email = <<"b", "@", "x">>
    /\ members[2].email = <<"b", "@", "x">>
    /\ Cardinality({i \in 1..Len(users) : users[i].email = <<"b", "@", "x">>}) = 1
    /\ response.op = "create_member"
    /\ response.status = 200
    /\ response.body.status = "error"
    /\ response.body.message = "A user with this email already exists."

\* C3: a step that adds a document to a content collection is taken with a
\* session whose email resolves to a User; a POST /api/* request whose
\* session has no email, or an email of no User, is answered with the 307
\* redirect to /login and changes no collection and writes no file.
C3_PostsNeedLogin ==
    [][/\ (projects' # projects \/ members' # members \/ gallery' # gallery
              \/ blogs' # blogs) => LoggedIn
       /\ ~LoggedIn =>
            LET SentToLogin ==
                    /\ response'.status = 307
                    /\ StartsWith(response'.location, LoginPath \o <<"?">>)
                    /\ UNCHANGED data
            IN  /\ response'.op = "create_project" =>
                       \A f \in Uploads : CreateProject(f, 0) => SentToLogin
                /\ response'.op = "create_gallery_item" =>
                       \A f \in Uploads : CreateGalleryItem(f, 0) => SentToLogin
                /\ response'.op = "create_blog" =>
                       \A f \in Uploads : CreateBlog(f, 0) => SentToLogin
                /\ response'.op = "create_member" =>
                       \A f \in Uploads, g \in Uploads :
                           CreateMemberAlone(<<"B", "o", "b">>, <<"b", "@", "x">>,
                                             <<"p">>, f, g, FALSE, 0, 1)
                           => SentToLogin]_vars

\* A project was posted by a logged-in user, and after the logout a further
\* POST /api/projects was answered with the redirect.
C3_Witness ==
    /\ Len(projects) = 1
    /\ session = <<>>
    /\ response.op = "create_project"
    /\ response.status = 307

\* What every login leaves when the credentials are good: the session
\* carries the user's email and name and resolves to that user.
LoginEstablished(user) ==
    /\ Get(session', "user_email") = user.email
    /\ Get(session', "user_name") = user.name
    /\ get_current_user(session', users') = user

LoginRefused ==
    /\ response'.status = 303
    /\ StartsWith(response'.location, LoginError)

\* C4 as claimed: a login with good credentials establishes the session;
\* a login whose password does not verify leaves no session at all.
C4_FailedLoginLeavesNoSession ==
    [][response'.op = "handle_login" =>
       \A e \in Emails, p \in LoginPasswords, n \in SubmittedNextUrls :
          HandleLogin(e, p, n) =>
              LET user == get_user_by_email(users, e)
              IN  IF IsObject(user) /\ verify_password(p, user.password)
                  THEN LoginEstablished(user)
                  ELSE /\ session' = <<>>
                       /\ ~IsObject(get_current_user(session', users'))
                       /\ LoginRefused]_vars

\* C4, amended: a login with good credentials establishes the session,
\* whatever the session was; a login whose password does not verify leaves
\* the session as it was (none, when there was none) and is answered with
\* the 303 redirect to the login page with error=1.
C4_Login ==
    [][response'.op = "handle_login" =>
       \A e \in Emails, p \in LoginPasswords, n \in SubmittedNextUrls :
          HandleLogin(e, p, n) =>
              LET user == get_user_by_email(users, e)
              IN  IF IsObject(user) /\ verify_password(p, user.password)
                  THEN LoginEstablished(user)
                  ELSE /\ session' = session
                       /\ get_current_user(session', users')
                              = get_current_user(session, users)
                       /\ LoginRefused]_vars

\* A user who is logged in has just had a login refused.
C4_Witness ==
    /\ Get(session, "user_email") = <<"a", "@", "x">>
    /\ Get(session, "user_name") = <<"A", "n", "n">>
    /\ response.op = "handle_login"
    /\ StartsWith(response.location, LoginError)

\* A path on the site's own origin: it starts with one "/", not with "//"
\* (which a browser reads as the host of another site).
SameOriginPath(url) ==
    /\ StartsWith(url, <<"/">>)
    /\ ~StartsWith(url, <<"/", "/">>)

\* A redirect target that keeps the browser on the site
SameOrigin(url) ==
    \/ SameOriginPath(url)
    \/ url = Origin
    \/ StartsWith(url, Origin \o <<"/">>)

GoodLogin(e, p) ==
    /\ IsObject(get_user_by_email(users, e))
    /\ verify_password(p, get_user_by_email(users, e).password)

\* C5: a successful login redirects to the submitted return-to URL only
\* when it is a same-origin relative path and to /add-project otherwise, so
\* it never redirects to another origin.
C5_NoOpenRedirect ==
    [][response'.op = "handle_login" =>
       \A e \in Emails, p \in LoginPasswords, n \in SubmittedNextUrls :
          (GoodLogin(e, p) /\ HandleLogin(e, p, n)) =>
              /\ response'.status = 303
              /\ response'.location = IF SameOriginPath(n) THEN n ELSE AddProjectPath
              /\ SameOrigin(response'.location)]_vars

\* The login response brings the browser to page `page`
LandsOn(url, page) == url = page \/ url = Origin \o page

\* C6: when the login form is submitted with good credentials and with
\* next_url the decoded next parameter of the redirect that require_login
\* answers an unauthenticated request for protected page P with, the login
\* response redirects to P.
C6_ReturnToRoundTrip ==
    [][response'.op = "handle_login" =>
       \A e \in Emails, p \in LoginPasswords, page \in DOMAIN ProtectedPages :
          LET refused == require_login(<<>>, users, Origin \o page)
              n == QueryParam(refused.location, NextKey)
          IN  (/\ refused.raised
               /\ n \in SubmittedNextUrls
               /\ GoodLogin(e, p)
               /\ HandleLogin(e, p, n))
              => LandsOn(response'.location, page)]_vars

\* C7: a login with an email of no User is answered with the redirect to
\* the login page that carries the error flag and the submitted return-to
\* URL as its next parameter, as a wrong password is, and changes neither
\* the session nor a collection.
C7_UnknownEmailKeepsNext ==
    [][response'.op = "handle_login" =>
       \A e \in Emails, p \in LoginPasswords, n \in SubmittedNextUrls :
          (~HasUser(users, e) /\ HandleLogin(e, p, n)) =>
              /\ LoginRefused
              /\ (Truthy(n) /\ StartsWith(n, <<"/">>))
                     => QueryParam(response'.location, NextKey) = n
              /\ UNCHANGED <<session, data>>]_vars

\* C8: a logout from any session empties the session, so that no user is
\* current and a protected request is redirected; a logout of the session it
\* leaves does the same again; it is answered with the 303 redirect to /
\* and changes no collection.
C8_Logout ==
    [][HandleLogout =>
          /\ session' = <<>>
          /\ DOMAIN session' = {}
          /\ ~IsObject(get_current_user(session', users'))
          /\ \A page \in DOMAIN ProtectedPages :
                 require_login(session', users', Origin \o page).raised
          /\ response' = [op |-> "handle_logout", status |-> 303,
                          location |-> <<"/">>]
          /\ handle_logout(session').session = session'
          /\ handle_logout(session').response = handle_logout(session).response
          /\ UNCHANGED data]_vars

\* A logout has been answered after an admin, who had to log in for it,
\* created a user.
C8_Witness ==
    /\ Len(users) >= 2
    /\ session = <<>>
    /\ response.op = "handle_logout"

\* The URL field `field` of inserted document `doc` for upload `upload`
FileField(doc, field, upload) ==
    IF ~IsObject(upload) \/ upload.filename = <<>>
    THEN field \notin DOMAIN doc
    ELSE /\ field \in DOMAIN doc
         /\ doc[field] # NoneText
         /\ StartsWith(doc[field], <<"/">> \o UPLOAD_DIR \o <<"/">>)
         /\ EndsWith(doc[field], splitext(upload.filename))

\* C9: every add operation leaves each optional-file field out of the
\* inserted document when no file is attached (no upload object, or one
\* with an empty file name), and sets it to a URL that begins with /uploads/
\* and ends with the file's extension when a named file is attached.
C9_OptionalFileFields ==
    [][LoggedIn =>
          \A f \in Uploads, g \in Uploads :
             /\ (response'.op = "create_project" /\ CreateProject(f, 0))
                    => FileField(Last(projects'), "imageUrl", f)
             /\ (response'.op = "create_gallery_item" /\ CreateGalleryItem(f, 0))
                    => FileField(Last(gallery'), "imageUrl", f)
             /\ (response'.op = "create_blog" /\ CreateBlog(f, 0))
                    => FileField(Last(blogs'), "imageUrl", f)
             /\ (/\ response'.op = "create_member"
                 /\ CreateMemberAlone(<<"B", "o", "b">>, <<"b", "@", "x">>,
                                      <<"p">>, f, g, FALSE, 0, 1))
                    => /\ FileField(Last(members'), "photoUrl", f)
                       /\ FileField(Last(members'), "resumeUrl", g)]_vars

\* `body` is what a get_all of `collection` is to return: every stored
\* document, in order, with its fields as stored, a text id in place of _id
Returned(collection, body) ==
    /\ Len(body) = Len(collection)
    /\ \A i \in 1..Len(collection) :
          /\ DOMAIN body[i] = (DOMAIN collection[i] \ {"_id"}) \cup {"id"}
          /\ \A k \in DOMAIN collection[i] \ {"_id"} : body[i][k] = collection[i][k]
          /\ body[i].id \in Seq({HexDigits[d] : d \in 1..16})
          /\ \A j \in 1..Len(collection) : body[i].id = body[j].id => i = j

\* C10: the stored documents of every collection are only ever added to,
\* never removed or changed; a GET changes no collection and returns every
\* document stored, with its fields as stored, a text id and no _id.
C10_CreateAndReadOnly ==
    [][/\ \E k \in 0..1 : Appended(projects, projects', k)
       /\ \E k \in 0..1 : Appended(members, members', k)
       /\ \E k \in 0..1 : Appended(gallery, gallery', k)
       /\ \E k \in 0..1 : Appended(blogs, blogs', k)
       /\ \E k \in 0..1 : Appended(users, users', k)
       /\ response'.op = "get_projects"
              => UNCHANGED data /\ Returned(projects', response'.body)
       /\ response'.op = "get_members"
              => UNCHANGED data /\ Returned(members', response'.body)
       /\ response'.op = "get_gallery"
              => UNCHANGED data /\ Returned(gallery', response'.body)
       /\ response'.op = "get_blogs"
              => UNCHANGED data /\ Returned(blogs', response'.body)]_vars

\* The members added, one of them with a file, have been read back.
C10_Witness ==
    /\ response.op = "get_members"
    /\ Len(response.body) = 2
    /\ \E i \in 1..2 : "photoUrl" \in DOMAIN response.body[i]
                        /\ response.body[i].photoUrl # NoneText

====
